---- MODULE Spec2Model ----
(***************************************************************************)
(* bevy_flat_arrays: flat 2D and 3D arrays (Array2d, Array3d) backed by    *)
(* one Vec<T>, the coordinate <-> index mappers they use, and their        *)
(* iterators.                                                              *)
(*                                                                         *)
(* Conventions.                                                            *)
(*  - A Vec<T> is a TLA+ sequence; raw offset k is element k + 1.          *)
(*  - An IVec2 is <<x, y>>, an IVec3 is <<x, y, z>>; a component is an     *)
(*    i32 and may be negative.                                             *)
(*  - A usize is a 64-bit word. The word of value w is written as the      *)
(*    integer w when w < 2^63 and as w - 2^64 when w >= 2^63 (its two's    *)
(*    complement reading): -1 stands for 18446744073709551615 = 2^64 - 1.  *)
(*    Words are ordered by usize_lt, never by <. Wrapping +, - and * on    *)
(*    words are +, - and * on these integers. All magnitudes stay below    *)
(*    2^31.                                                                *)
(*  - Arithmetic that overflows usize panics in a build with overflow      *)
(*    checks (debug) and wraps in a build without (release): a call that   *)
(*    overflows has both outcomes.                                         *)
(*  - The generic element type T is instantiated at bool; T::default()    *)
(*    is false.                                                            *)
(*  - A failed assert! (a panic) is recorded as status "panic"; the        *)
(*    container is left as it was, since every assert precedes the write.  *)
(***************************************************************************)
EXTENDS Integers, Sequences, FiniteSets

VARIABLES dim, arr2, arr3, writes, last, it, out, inp, res

vars == <<dim, arr2, arr3, writes, last, it, out, inp, res>>

(* Bounds of the model. *)
MaxExt2 == 3
MaxExt3 == 2
MaxWrites == 1
MaxArg == 4

(* The element type, T = bool, and T::default(). *)
T == BOOLEAN

Default == FALSE

Ext2 == 0..MaxExt2
Ext3 == 0..MaxExt3

(* The IVec2 and IVec3 arguments: components from -1 up to the largest     *)
(* extent.                                                                 *)
Comp2 == -1..MaxExt2
Comp3 == -1..MaxExt3
Coord2 == Comp2 \X Comp2
Coord3 == Comp3 \X Comp3 \X Comp3

(***************************************************************************)
(* Index mappers, 2D (flat_array_2d.rs).                                   *)
(***************************************************************************)
(* a < b on usize words (unsigned order): a word written as a negative     *)
(* integer is above every word written as a non-negative one.              *)
usize_lt(a, b) == IF (a < 0) = (b < 0) THEN a < b ELSE b < 0

(* a * b and a + b exceed usize::MAX. With |a|, |b| < 2^31, a word written *)
(* as a negative integer is at least 2^64 - 2^31.                          *)
mul_overflows(a, b) ==
    \/ a < 0 /\ b < 0
    \/ a < 0 /\ b >= 2
    \/ b < 0 /\ a >= 2

add_overflows(a, b) ==
    \/ a < 0 /\ b < 0
    \/ (a < 0) # (b < 0) /\ a + b >= 0

(* The wrapped value of width * x + y. *)
get_1d_from_2d(width, x, y) == width * x + y

(* Some operation of width * x + y overflows. *)
get_1d_from_2d_overflows(width, x, y) ==
    \/ mul_overflows(width, x)
    \/ add_overflows(width * x, y)

(* Faulty variant: quotient and remainder exchanged. *)
get_2d_from_1d_swapped(width, i) == <<i % width, i \div width>>

get_2d_from_1d(width, i) == <<i \div width, i % width>>

(* `n as usize` of an i32 sign-extends n to 64 bits: the word keeps the     *)
(* two's complement reading n. For n < 0 its value is 2^64 + n, so          *)
(* as_usize(-1) = -1 is the word 18446744073709551615 and as_usize(-2) = -2 *)
(* the word 18446744073709551614.                                           *)
as_usize(n) == n

(* `n as i32` of a usize keeps the low 32 bits; on words written with       *)
(* magnitude below 2^31 the reading is unchanged.                           *)
as_i32(n) == n

get_1d_from_2d_ivec2(width, v) == get_1d_from_2d(width, as_usize(v[1]), as_usize(v[2]))

get_1d_from_2d_ivec2_overflows(width, v) ==
    get_1d_from_2d_overflows(width, as_usize(v[1]), as_usize(v[2]))

get_2d_from_1d_ivec2(width, i) ==
    LET p == get_2d_from_1d(width, i)
    IN  <<as_i32(p[1]), as_i32(p[2])>>

(***************************************************************************)
(* Index mappers, 3D (flat_array_3d.rs).                                   *)
(***************************************************************************)
(* The wrapped value of (z * max_x * max_y) + (y * max_x) + x. *)
get_1d_from_3d(max_x, max_y, x, y, z) == (z * max_x * max_y) + (y * max_x) + x

(* Some operation of it overflows; the products are taken left to right. *)
get_1d_from_3d_overflows(max_x, max_y, x, y, z) ==
    \/ mul_overflows(z, max_x)
    \/ mul_overflows(z * max_x, max_y)
    \/ mul_overflows(y, max_x)
    \/ add_overflows(z * max_x * max_y, y * max_x)
    \/ add_overflows((z * max_x * max_y) + (y * max_x), x)

(* Faulty variant: the remainder is split by max_y instead of max_x. *)
get_3d_from_1d_by_max_y(max_x, max_y, idx) ==
    LET z == idx \div (max_x * max_y)
        idx2 == idx - (z * max_x * max_y)
        y == idx2 \div max_y
        x == idx2 % max_y
    IN  <<x, y, z>>

get_3d_from_1d(max_x, max_y, idx) ==
    LET z == idx \div (max_x * max_y)
        idx2 == idx - (z * max_x * max_y)
        y == idx2 \div max_x
        x == idx2 % max_x
    IN  <<x, y, z>>

get_1d_from_3d_ivec3(max_x, max_y, v) ==
    LET x == as_usize(v[1])
        y == as_usize(v[2])
        z == as_usize(v[3])
    IN  get_1d_from_3d(max_x, max_y, x, y, z)

get_1d_from_3d_ivec3_overflows(max_x, max_y, v) ==
    get_1d_from_3d_overflows(max_x, max_y, as_usize(v[1]), as_usize(v[2]), as_usize(v[3]))

get_3d_from_1d_ivec3(max_x, max_y, idx) ==
    LET p == get_3d_from_1d(max_x, max_y, idx)
    IN  <<as_i32(p[1]), as_i32(p[2]), as_i32(p[3])>>

(***************************************************************************)
(* Vec<T>.                                                                 *)
(***************************************************************************)
(* Vec::resize_with(new_len, || T::default()): truncates, or appends       *)
(* defaults up to new_len.                                                 *)
resize_with(s, new_len) ==
    [k \in 1..new_len |-> IF k <= Len(s) THEN s[k] ELSE Default]

(* self.array[i] = value *)
store(s, i, value) == [s EXCEPT ![i + 1] = value]

(***************************************************************************)
(* Array2d<T> (flat_array_2d.rs): [width, height, array].                  *)
(* An operation's outcome is [a, status, ret]: the container afterwards,   *)
(* "ok" or "panic", and what it returned (<<>> for nothing). get, get_mut  *)
(* and set compute an index first and give the set of their outcomes.      *)
(***************************************************************************)
Ok(a, ret) == [a |-> a, status |-> "ok", ret |-> ret]

Panic(a) == [a |-> a, status |-> "panic", ret |-> <<>>]

(* The outcomes of a call whose index arithmetic comes first: r with the   *)
(* wrapped index, and the overflow panic as well when it overflows.        *)
Outcomes(overflows, a, r) == IF overflows THEN {Panic(a), r} ELSE {r}

(* Faulty variant: the assert on height is missing. *)
Array2d_new_width_only(old, width, height) ==
    IF width > 0
    THEN Ok([width |-> width, height |-> height,
             array |-> resize_with(<<>>, width * height)], <<>>)
    ELSE Panic(old)

Array2d_new(old, width, height) ==
    IF width > 0 /\ height > 0
    THEN Ok([width |-> width, height |-> height,
             array |-> resize_with(<<>>, width * height)], <<>>)
    ELSE Panic(old)

Array2d_len(a) == a.width * a.height

Array2d_is_empty(a) == FALSE

Array2d_get(a, v) ==
    LET i == get_1d_from_2d_ivec2(a.width, v)
    IN  Outcomes(get_1d_from_2d_ivec2_overflows(a.width, v), a,
                 IF usize_lt(i, Array2d_len(a)) /\ usize_lt(i, Len(a.array))
                 THEN Ok(a, <<a.array[i + 1]>>)
                 ELSE Panic(a))

(* The returned &mut T is identified by the raw offset of its slot. *)
Array2d_get_mut(a, v) ==
    LET i == get_1d_from_2d_ivec2(a.width, v)
    IN  Outcomes(get_1d_from_2d_ivec2_overflows(a.width, v), a,
                 IF usize_lt(i, Array2d_len(a)) /\ usize_lt(i, Len(a.array))
                 THEN Ok(a, <<i>>)
                 ELSE Panic(a))

Array2d_set(a, v, value) ==
    LET i == get_1d_from_2d_ivec2(a.width, v)
    IN  Outcomes(get_1d_from_2d_ivec2_overflows(a.width, v), a,
                 IF usize_lt(i, Array2d_len(a)) /\ usize_lt(i, Len(a.array))
                 THEN Ok([a EXCEPT !.array = store(a.array, i, value)], <<>>)
                 ELSE Panic(a))

(* Faulty variant: the extents change, the Vec is left as it is. *)
Array2d_resize_keep_len(a, width, heigth) ==
    Ok([width |-> width, height |-> heigth, array |-> a.array], <<>>)

Array2d_resize(a, width, heigth) ==
    Ok([width |-> width, height |-> heigth,
        array |-> resize_with(a.array, width * heigth)], <<>>)

Array2d_index(a, index) ==
    IF usize_lt(index, Array2d_len(a)) /\ usize_lt(index, Len(a.array))
    THEN Ok(a, <<a.array[index + 1]>>)
    ELSE Panic(a)

Array2d_index_mut(a, index) ==
    IF usize_lt(index, Array2d_len(a)) /\ usize_lt(index, Len(a.array))
    THEN Ok(a, <<index>>)
    ELSE Panic(a)

(* Iterators: the borrowed Vec is the container's array, read at each step. *)
NoIter == [kind |-> "none"]

Array2d_iter(a) ==
    [kind |-> "iter", cursor |-> 0, max |-> Array2d_len(a), width |-> a.width]

Array2d_iter_mut(a) ==
    [kind |-> "iter_mut", cursor |-> 0, max |-> Array2d_len(a), width |-> a.width]

(* Outcome of next(): [it, status, item]; status "some" or "none". *)
Array2dIter_next(i, items) ==
    LET tmp == i.cursor
    IN  IF tmp >= i.max
        THEN [it |-> i, status |-> "none", item |-> <<>>]
        ELSE [it |-> [i EXCEPT !.cursor = tmp + 1], status |-> "some",
              item |-> <<get_2d_from_1d_ivec2(i.width, tmp), items[tmp + 1]>>]

(* The cursor advances before the end test; the position is computed from  *)
(* the advanced cursor; the reference is items.as_mut_ptr(), the slot at   *)
(* raw offset 0. An item is <<position, raw offset the reference points to>>. *)
Array2dMutIter_next(i) ==
    LET tmp == i.cursor
        next == [i EXCEPT !.cursor = tmp + 1]
    IN  IF tmp >= i.max
        THEN [it |-> next, status |-> "none", item |-> <<>>]
        ELSE [it |-> next, status |-> "some",
              item |-> <<get_2d_from_1d_ivec2(i.width, next.cursor), 0>>]

(***************************************************************************)
(* Array3d<T> (flat_array_3d.rs): [width, height, depth, array].           *)
(***************************************************************************)
Array3d_new(old, width, height, depth) ==
    IF width > 0 /\ height > 0 /\ depth > 0
    THEN Ok([width |-> width, height |-> height, depth |-> depth,
             array |-> resize_with(<<>>, width * height * depth)], <<>>)
    ELSE Panic(old)

(* Faulty variant: the Vec is rebuilt from defaults. *)
Array3d_resize_reset(a, width, heigth, depth) ==
    Ok([width |-> width, height |-> heigth, depth |-> depth,
        array |-> resize_with(<<>>, width * heigth * depth)], <<>>)

Array3d_resize(a, width, heigth, depth) ==
    Ok([width |-> width, height |-> heigth, depth |-> depth,
        array |-> resize_with(a.array, width * heigth * depth)], <<>>)

Array3d_len(a) == a.width * a.height * a.depth

Array3d_is_empty(a) == FALSE

Array3d_get(a, v) ==
    LET i == get_1d_from_3d_ivec3(a.width, a.height, v)
    IN  Outcomes(get_1d_from_3d_ivec3_overflows(a.width, a.height, v), a,
                 IF usize_lt(i, Array3d_len(a)) /\ usize_lt(i, Len(a.array))
                 THEN Ok(a, <<a.array[i + 1]>>)
                 ELSE Panic(a))

Array3d_get_mut(a, v) ==
    LET i == get_1d_from_3d_ivec3(a.width, a.height, v)
    IN  Outcomes(get_1d_from_3d_ivec3_overflows(a.width, a.height, v), a,
                 IF usize_lt(i, Array3d_len(a)) /\ usize_lt(i, Len(a.array))
                 THEN Ok(a, <<i>>)
                 ELSE Panic(a))

Array3d_set(a, v, value) ==
    LET i == get_1d_from_3d_ivec3(a.width, a.height, v)
    IN  Outcomes(get_1d_from_3d_ivec3_overflows(a.width, a.height, v), a,
                 IF usize_lt(i, Array3d_len(a)) /\ usize_lt(i, Len(a.array))
                 THEN Ok([a EXCEPT !.array = store(a.array, i, value)], <<>>)
                 ELSE Panic(a))

Array3d_index(a, index) ==
    IF usize_lt(index, Array3d_len(a)) /\ usize_lt(index, Len(a.array))
    THEN Ok(a, <<a.array[index + 1]>>)
    ELSE Panic(a)

(* Faulty variant: the reference is to the first slot, whatever the index. *)
Array3d_index_mut_first(a, index) ==
    IF usize_lt(index, Array3d_len(a)) /\ usize_lt(index, Len(a.array))
    THEN Ok(a, <<0>>)
    ELSE Panic(a)

Array3d_index_mut(a, index) ==
    IF usize_lt(index, Array3d_len(a)) /\ usize_lt(index, Len(a.array))
    THEN Ok(a, <<index>>)
    ELSE Panic(a)

Array3d_iter(a) ==
    [kind |-> "iter", cursor |-> 0, max |-> Array3d_len(a),
     width |-> a.width, height |-> a.height]

Array3d_iter_mut(a) ==
    [kind |-> "iter_mut", cursor |-> 0, max |-> Array3d_len(a),
     width |-> a.width, height |-> a.height]

(* Faulty variant: the position is computed from the advanced cursor. *)
Array3dIter_next_after_increment(i, items) ==
    LET tmp == i.cursor
    IN  IF tmp >= i.max
        THEN [it |-> i, status |-> "none", item |-> <<>>]
        ELSE [it |-> [i EXCEPT !.cursor = tmp + 1], status |-> "some",
              item |-> <<get_3d_from_1d_ivec3(i.width, i.height, tmp + 1),
                         items[tmp + 1]>>]

Array3dIter_next(i, items) ==
    LET tmp == i.cursor
    IN  IF tmp >= i.max
        THEN [it |-> i, status |-> "none", item |-> <<>>]
        ELSE [it |-> [i EXCEPT !.cursor = tmp + 1], status |-> "some",
              item |-> <<get_3d_from_1d_ivec3(i.width, i.height, tmp),
                         items[tmp + 1]>>]

Array3dMutIter_next(i) ==
    LET tmp == i.cursor
        next == [i EXCEPT !.cursor = tmp + 1]
    IN  IF tmp >= i.max
        THEN [it |-> next, status |-> "none", item |-> <<>>]
        ELSE [it |-> next, status |-> "some",
              item |-> <<get_3d_from_1d_ivec3(i.width, i.height, next.cursor), 0>>]

(***************************************************************************)
(* The state machine of one container.                                     *)
(*   dim     which container the run exercises, "2d" or "3d" ("map" in     *)
(*           the mapper specification below); the other one stays as       *)
(*           constructed                                                   *)
(*   arr2    the Array2d, arr3 the Array3d                                 *)
(*   writes  number of slot writes performed so far (bounded by MaxWrites) *)
(*   last    the call that has just returned or panicked: [op, c, v,       *)
(*           status, ret]; c its coordinate, index or extents, v the value *)
(*           passed (<<>> if none); Idle once the caller has moved on      *)
(*   it      the live iterator (NoIter if none); while it lives the        *)
(*           container is borrowed and no other call is made               *)
(*   out     the items the live iterator has yielded, in order             *)
(***************************************************************************)
Call(op, c, v, r) ==
    [op |-> op, c |-> c, v |-> v, status |-> r.status, ret |-> r.ret]

Fresh2d(w, h) == Array2d_new([width |-> 0, height |-> 0, array |-> <<>>], w, h).a

Fresh3d(w, h, d) ==
    Array3d_new([width |-> 0, height |-> 0, depth |-> 0, array |-> <<>>], w, h, d).a

(* No call in progress: the caller has taken the result of the last one. *)
Idle == [op |-> "idle", c |-> <<>>, v |-> <<>>, status |-> "ok", ret |-> <<>>]

NoInput == [fn |-> "none"]

NoResult == [at |-> "none"]

Init ==
    /\ \/ \E w \in 1..MaxExt2, h \in 1..MaxExt2 :
             /\ dim = "2d"
             /\ arr2 = Fresh2d(w, h)
             /\ arr3 = Fresh3d(1, 1, 1)
             /\ last = [op |-> "new", c |-> <<w, h>>, v |-> <<>>,
                        status |-> "ok", ret |-> <<>>]
       \/ \E w \in 1..MaxExt3, h \in 1..MaxExt3, d \in 1..MaxExt3 :
             /\ dim = "3d"
             /\ arr2 = Fresh2d(1, 1)
             /\ arr3 = Fresh3d(w, h, d)
             /\ last = [op |-> "new", c |-> <<w, h, d>>, v |-> <<>>,
                        status |-> "ok", ret |-> <<>>]
    /\ writes = 0
    /\ it = NoIter
    /\ out = <<>>
    /\ inp = NoInput
    /\ res = NoResult

(* A call on the Array2d that is not an iterator step: rs is the set of    *)
(* its outcomes, wrote says whether it stores into a slot when it          *)
(* succeeds.                                                               *)
Step2d(op, c, v, rs, wrote) ==
    /\ dim = "2d"
    /\ last = Idle
    /\ it.kind = "none"
    /\ \E r \in rs :
          /\ (wrote /\ r.status = "ok") => writes < MaxWrites
          /\ arr2' = r.a
          /\ writes' = IF wrote /\ r.status = "ok" THEN writes + 1 ELSE writes
          /\ last' = Call(op, c, v, r)
    /\ UNCHANGED <<dim, arr3, it, out, inp, res>>

New2d(w, h) == Step2d("new", <<w, h>>, <<>>, {Array2d_new(arr2, w, h)}, FALSE)

Get2d(c) == Step2d("get", c, <<>>, Array2d_get(arr2, c), FALSE)

(* *a.get_mut(c) = value *)
GetMut2d(c, value) ==
    Step2d("get_mut", c, <<value>>,
           {IF r.status = "ok"
            THEN Ok([arr2 EXCEPT !.array = store(arr2.array, r.ret[1], value)], r.ret)
            ELSE r : r \in Array2d_get_mut(arr2, c)},
           TRUE)

Set2d(c, value) == Step2d("set", c, <<value>>, Array2d_set(arr2, c, value), TRUE)

Resize2d(w, h) == Step2d("resize", <<w, h>>, <<>>, {Array2d_resize(arr2, w, h)}, FALSE)

(* a[i] *)
Index2d(i) == Step2d("index", <<i>>, <<>>, {Array2d_index(arr2, i)}, FALSE)

(* a[i] = value *)
IndexMut2d(i, value) ==
    LET r == Array2d_index_mut(arr2, i)
    IN  Step2d("index_mut", <<i>>, <<value>>,
               {IF r.status = "ok"
                THEN Ok([arr2 EXCEPT !.array = store(arr2.array, r.ret[1], value)], r.ret)
                ELSE r},
               TRUE)

(* a.iter(), also (&a).into_iter(); a new iterator replaces the live one. *)
Iter2d ==
    /\ dim = "2d"
    /\ last = Idle
    /\ it.kind \in {"none", "iter"}
    /\ it' = Array2d_iter(arr2)
    /\ out' = <<>>
    /\ last' = [op |-> "iter", c |-> <<>>, v |-> <<>>, status |-> "ok", ret |-> <<>>]
    /\ UNCHANGED <<dim, arr2, arr3, writes, inp, res>>

IterNext2d ==
    /\ dim = "2d"
    /\ last = Idle
    /\ it.kind = "iter"
    /\ LET r == Array2dIter_next(it, arr2.array)
       IN  /\ it' = r.it
           /\ out' = IF r.status = "some" THEN Append(out, r.item) ELSE out
           /\ last' = [op |-> "next", c |-> <<>>, v |-> <<>>,
                       status |-> r.status, ret |-> r.item]
    /\ UNCHANGED <<dim, arr2, arr3, writes, inp, res>>

(* (&mut a).into_iter() *)
IterMut2d ==
    /\ dim = "2d"
    /\ last = Idle
    /\ it.kind = "none"
    /\ it' = Array2d_iter_mut(arr2)
    /\ out' = <<>>
    /\ last' = [op |-> "iter_mut", c |-> <<>>, v |-> <<>>, status |-> "ok", ret |-> <<>>]
    /\ UNCHANGED <<dim, arr2, arr3, writes, inp, res>>

(* next() on the mutable iterator; the cursor grows on every call, so the  *)
(* calls after the first None are cut off.                                 *)
MutIterNext2d ==
    /\ dim = "2d"
    /\ last = Idle
    /\ it.kind = "iter_mut"
    /\ it.cursor <= it.max
    /\ LET r == Array2dMutIter_next(it)
       IN  /\ it' = r.it
           /\ out' = IF r.status = "some" THEN Append(out, r.item) ELSE out
           /\ last' = [op |-> "next_mut", c |-> <<>>, v |-> <<>>,
                       status |-> r.status, ret |-> r.item]
    /\ UNCHANGED <<dim, arr2, arr3, writes, inp, res>>

(* *value = v on the reference the mutable iterator yielded last. *)
MutIterWrite2d(value) ==
    /\ dim = "2d"
    /\ last = Idle
    /\ it.kind = "iter_mut"
    /\ Len(out) > 0
    /\ writes < MaxWrites
    /\ arr2' = [arr2 EXCEPT !.array = store(arr2.array, out[Len(out)][2], value)]
    /\ writes' = writes + 1
    /\ last' = [op |-> "write_ref", c |-> <<out[Len(out)][2]>>, v |-> <<value>>,
                status |-> "ok", ret |-> <<>>]
    /\ UNCHANGED <<dim, arr3, it, out, inp, res>>

(* The iterator goes out of scope. *)
DropIter ==
    /\ last = Idle
    /\ it.kind # "none"
    /\ it' = NoIter
    /\ out' = <<>>
    /\ last' = [op |-> "drop", c |-> <<>>, v |-> <<>>, status |-> "ok", ret |-> <<>>]
    /\ UNCHANGED <<dim, arr2, arr3, writes, inp, res>>

(* The same calls on the Array3d. *)
Step3d(op, c, v, rs, wrote) ==
    /\ dim = "3d"
    /\ last = Idle
    /\ it.kind = "none"
    /\ \E r \in rs :
          /\ (wrote /\ r.status = "ok") => writes < MaxWrites
          /\ arr3' = r.a
          /\ writes' = IF wrote /\ r.status = "ok" THEN writes + 1 ELSE writes
          /\ last' = Call(op, c, v, r)
    /\ UNCHANGED <<dim, arr2, it, out, inp, res>>

New3d(w, h, d) == Step3d("new", <<w, h, d>>, <<>>, {Array3d_new(arr3, w, h, d)}, FALSE)

Get3d(c) == Step3d("get", c, <<>>, Array3d_get(arr3, c), FALSE)

GetMut3d(c, value) ==
    Step3d("get_mut", c, <<value>>,
           {IF r.status = "ok"
            THEN Ok([arr3 EXCEPT !.array = store(arr3.array, r.ret[1], value)], r.ret)
            ELSE r : r \in Array3d_get_mut(arr3, c)},
           TRUE)

Set3d(c, value) == Step3d("set", c, <<value>>, Array3d_set(arr3, c, value), TRUE)

Resize3d(w, h, d) ==
    Step3d("resize", <<w, h, d>>, <<>>, {Array3d_resize(arr3, w, h, d)}, FALSE)

Index3d(i) == Step3d("index", <<i>>, <<>>, {Array3d_index(arr3, i)}, FALSE)

IndexMut3d(i, value) ==
    LET r == Array3d_index_mut(arr3, i)
    IN  Step3d("index_mut", <<i>>, <<value>>,
               {IF r.status = "ok"
                THEN Ok([arr3 EXCEPT !.array = store(arr3.array, r.ret[1], value)], r.ret)
                ELSE r},
               TRUE)

Iter3d ==
    /\ dim = "3d"
    /\ last = Idle
    /\ it.kind \in {"none", "iter"}
    /\ it' = Array3d_iter(arr3)
    /\ out' = <<>>
    /\ last' = [op |-> "iter", c |-> <<>>, v |-> <<>>, status |-> "ok", ret |-> <<>>]
    /\ UNCHANGED <<dim, arr2, arr3, writes, inp, res>>

IterNext3d ==
    /\ dim = "3d"
    /\ last = Idle
    /\ it.kind = "iter"
    /\ LET r == Array3dIter_next(it, arr3.array)
       IN  /\ it' = r.it
           /\ out' = IF r.status = "some" THEN Append(out, r.item) ELSE out
           /\ last' = [op |-> "next", c |-> <<>>, v |-> <<>>,
                       status |-> r.status, ret |-> r.item]
    /\ UNCHANGED <<dim, arr2, arr3, writes, inp, res>>

IterMut3d ==
    /\ dim = "3d"
    /\ last = Idle
    /\ it.kind = "none"
    /\ it' = Array3d_iter_mut(arr3)
    /\ out' = <<>>
    /\ last' = [op |-> "iter_mut", c |-> <<>>, v |-> <<>>, status |-> "ok", ret |-> <<>>]
    /\ UNCHANGED <<dim, arr2, arr3, writes, inp, res>>

MutIterNext3d ==
    /\ dim = "3d"
    /\ last = Idle
    /\ it.kind = "iter_mut"
    /\ it.cursor <= it.max
    /\ LET r == Array3dMutIter_next(it)
       IN  /\ it' = r.it
           /\ out' = IF r.status = "some" THEN Append(out, r.item) ELSE out
           /\ last' = [op |-> "next_mut", c |-> <<>>, v |-> <<>>,
                       status |-> r.status, ret |-> r.item]
    /\ UNCHANGED <<dim, arr2, arr3, writes, inp, res>>

MutIterWrite3d(value) ==
    /\ dim = "3d"
    /\ last = Idle
    /\ it.kind = "iter_mut"
    /\ Len(out) > 0
    /\ writes < MaxWrites
    /\ arr3' = [arr3 EXCEPT !.array = store(arr3.array, out[Len(out)][2], value)]
    /\ writes' = writes + 1
    /\ last' = [op |-> "write_ref", c |-> <<out[Len(out)][2]>>, v |-> <<value>>,
                status |-> "ok", ret |-> <<>>]
    /\ UNCHANGED <<dim, arr2, it, out, inp, res>>

(* The caller takes the result of the call; the next call starts from here. *)
Return ==
    /\ last # Idle
    /\ last' = Idle
    /\ UNCHANGED <<dim, arr2, arr3, writes, it, out, inp, res>>

(* The arguments a call can be made with: none while the result of the     *)
(* last call has not been taken.                                           *)
Args(S) == IF last = Idle THEN S ELSE {}

Next ==
    \/ \E w \in Args(Ext2), h \in Ext2 : New2d(w, h)
    \/ \E c \in Args(Coord2) : Get2d(c)
    \/ \E c \in Args(Coord2), value \in T : GetMut2d(c, value)
    \/ \E c \in Args(Coord2), value \in T : Set2d(c, value)
    \/ \E w \in Args(Ext2), h \in Ext2 : Resize2d(w, h)
    \/ \E i \in Args(0..(MaxExt2 * MaxExt2)) : Index2d(i)
    \/ \E i \in Args(0..(MaxExt2 * MaxExt2)), value \in T : IndexMut2d(i, value)
    \/ Iter2d
    \/ IterNext2d
    \/ IterMut2d
    \/ MutIterNext2d
    \/ \E value \in T : MutIterWrite2d(value)
    \/ \E w \in Args(Ext3), h \in Ext3, d \in Ext3 : New3d(w, h, d)
    \/ \E c \in Args(Coord3) : Get3d(c)
    \/ \E c \in Args(Coord3), value \in T : GetMut3d(c, value)
    \/ \E c \in Args(Coord3), value \in T : Set3d(c, value)
    \/ \E w \in Args(Ext3), h \in Ext3, d \in Ext3 : Resize3d(w, h, d)
    \/ \E i \in Args(0..(MaxExt3 * MaxExt3 * MaxExt3)) : Index3d(i)
    \/ \E i \in Args(0..(MaxExt3 * MaxExt3 * MaxExt3)), value \in T : IndexMut3d(i, value)
    \/ Iter3d
    \/ IterNext3d
    \/ IterMut3d
    \/ MutIterNext3d
    \/ \E value \in T : MutIterWrite3d(value)
    \/ DropIter
    \/ Return

Spec == Init /\ [][Next]_vars

(* What the container reports in the current state. *)
CurLen == IF dim = "2d" THEN Array2d_len(arr2) ELSE Array3d_len(arr3)

IsEmpty == IF dim = "2d" THEN Array2d_is_empty(arr2) ELSE Array3d_is_empty(arr3)

Buf == IF dim = "2d" THEN arr2.array ELSE arr3.array

TypeOK ==
    /\ dim \in {"2d", "3d"}
    /\ writes \in 0..MaxWrites
    /\ \A k \in 1..Len(Buf) : Buf[k] \in T
    /\ last.status \in {"ok", "panic", "some", "none"}
    /\ Len(out) <= CurLen

(***************************************************************************)
(* The index mappers on their own: the arguments are drawn at the start    *)
(* (inp), the index is computed from the point, then the point from the    *)
(* index (res). The containers are not touched.                            *)
(***************************************************************************)
InitMap ==
    /\ dim = "map"
    /\ arr2 = Fresh2d(1, 1)
    /\ arr3 = Fresh3d(1, 1, 1)
    /\ writes = 0
    /\ last = Idle
    /\ it = NoIter
    /\ out = <<>>
    /\ \/ \E width \in 1..MaxArg, x \in 0..MaxArg, y \in 0..MaxArg :
             inp = [fn |-> "2d", width |-> width, x |-> x, y |-> y]
       \/ \E max_x \in 1..MaxArg, max_y \in 1..MaxArg,
             x \in 0..MaxArg, y \in 0..MaxArg, z \in 0..MaxArg :
             inp = [fn |-> "3d", max_x |-> max_x, max_y |-> max_y,
                    x |-> x, y |-> y, z |-> z]
    /\ res = [at |-> "start", i |-> 0, p |-> <<>>]

Call_get_1d_from_2d ==
    /\ inp.fn = "2d"
    /\ res.at = "start"
    /\ res' = [at |-> "index", i |-> get_1d_from_2d(inp.width, inp.x, inp.y), p |-> <<>>]
    /\ UNCHANGED <<dim, arr2, arr3, writes, last, it, out, inp>>

Call_get_2d_from_1d ==
    /\ inp.fn = "2d"
    /\ res.at = "index"
    /\ res' = [res EXCEPT !.at = "point", !.p = get_2d_from_1d(inp.width, res.i)]
    /\ UNCHANGED <<dim, arr2, arr3, writes, last, it, out, inp>>

Call_get_1d_from_3d ==
    /\ inp.fn = "3d"
    /\ res.at = "start"
    /\ res' = [at |-> "index",
               i |-> get_1d_from_3d(inp.max_x, inp.max_y, inp.x, inp.y, inp.z),
               p |-> <<>>]
    /\ UNCHANGED <<dim, arr2, arr3, writes, last, it, out, inp>>

Call_get_3d_from_1d ==
    /\ inp.fn = "3d"
    /\ res.at = "index"
    /\ res' = [res EXCEPT !.at = "point",
                          !.p = get_3d_from_1d(inp.max_x, inp.max_y, res.i)]
    /\ UNCHANGED <<dim, arr2, arr3, writes, last, it, out, inp>>

NextMap ==
    \/ Call_get_1d_from_2d
    \/ Call_get_2d_from_1d
    \/ Call_get_1d_from_3d
    \/ Call_get_3d_from_1d

SpecMap == InitMap /\ [][NextMap]_vars

(***************************************************************************)
(* C1 (as stated): for every width > 0 and every x >= 0, y >= 0,           *)
(* get_2d_from_1d(width, get_1d_from_2d(width, x, y)) = (x, y).            *)
(***************************************************************************)
C1_RoundTrip2dAnyY ==
    (inp.fn = "2d" /\ res.at = "point") => res.p = <<inp.x, inp.y>>

(***************************************************************************)
(* C1 (amended): for every width > 0, every x >= 0 and every y with        *)
(* 0 <= y < width, get_2d_from_1d(width, get_1d_from_2d(width, x, y)) =    *)
(* (x, y).                                                                 *)
(***************************************************************************)
C1_RoundTrip2d ==
    (inp.fn = "2d" /\ res.at = "point" /\ inp.y < inp.width)
        => res.p = <<inp.x, inp.y>>

C1_Witness ==
    /\ inp.fn = "2d" /\ res.at = "point"
    /\ inp.width > 1 /\ inp.y > 0 /\ inp.y < inp.width /\ inp.x > inp.width
    /\ res.p = <<inp.x, inp.y>>

(***************************************************************************)
(* C10: for every max_x > 0, max_y > 0, every x < max_x, y < max_y and     *)
(* z >= 0, the index is z*max_x*max_y + y*max_x + x and get_3d_from_1d     *)
(* maps it back to (x, y, z).                                              *)
(***************************************************************************)
C10_RoundTrip3d ==
    (inp.fn = "3d" /\ inp.x < inp.max_x /\ inp.y < inp.max_y)
        => /\ res.at \in {"index", "point"}
              => res.i = inp.z * inp.max_x * inp.max_y + inp.y * inp.max_x + inp.x
           /\ res.at = "point" => res.p = <<inp.x, inp.y, inp.z>>

C10_Witness ==
    /\ inp.fn = "3d" /\ res.at = "point"
    /\ inp.max_x # inp.max_y
    /\ inp.x > 0 /\ inp.x < inp.max_x /\ inp.y > 0 /\ inp.y < inp.max_y
    /\ inp.z > inp.max_x /\ inp.z > inp.max_y
    /\ res.p = <<inp.x, inp.y, inp.z>>

(***************************************************************************)
(* Vocabulary of the container claims.                                     *)
(***************************************************************************)
(* c lies inside the current extents. *)
InExtents(c) ==
    /\ \A k \in 1..Len(c) : c[k] >= 0
    /\ IF dim = "2d"
       THEN c[1] < arr2.width /\ c[2] < arr2.height
       ELSE c[1] < arr3.width /\ c[2] < arr3.height /\ c[3] < arr3.depth

Coords == IF dim = "2d" THEN Coord2 ELSE Coord3

(* What Get(c) would answer now: the [status, ret] of each of its outcomes. *)
GetNow(c) ==
    {[status |-> r.status, ret |-> r.ret] :
        r \in IF dim = "2d" THEN Array2d_get(arr2, c) ELSE Array3d_get(arr3, c)}

(* The position the inverse index formula gives raw offset k, with the     *)
(* container's current width (and height in 3D).                           *)
PositionOf(k) ==
    IF dim = "2d"
    THEN <<k \div arr2.width, k % arr2.width>>
    ELSE LET plane == arr3.width * arr3.height
             r == k - (k \div plane) * plane
         IN  <<r % arr3.width, r \div arr3.width, k \div plane>>

ExtentsProduct ==
    IF dim = "2d" THEN arr2.width * arr2.height
    ELSE arr3.width * arr3.height * arr3.depth

(***************************************************************************)
(* C2: for a grid of any positive extents and every coordinate inside the  *)
(* extents, Set(c, v) completes without a panic and a Get(c) that follows  *)
(* immediately returns v.                                                  *)
(***************************************************************************)
C2_SetThenGet ==
    (last.op = "set" /\ InExtents(last.c))
        => /\ last.status = "ok"
           /\ GetNow(last.c) = {[status |-> "ok", ret |-> last.v]}

(***************************************************************************)
(* C3: Set(c, v) with c inside the extents leaves Get(c') as it was for    *)
(* every other coordinate c' inside the extents, and leaves the extents    *)
(* and Len() unchanged.                                                    *)
(***************************************************************************)
C3_SetChangesOnlyItsCell ==
    [][(last'.op = "set" /\ InExtents(last'.c))
          => /\ \A c \in Coords :
                   (InExtents(c) /\ c # last'.c)
                       => GetNow(c)' = GetNow(c)
             /\ arr2'.width = arr2.width /\ arr2'.height = arr2.height
             /\ arr3'.width = arr3.width /\ arr3'.height = arr3.height
             /\ arr3'.depth = arr3.depth
             /\ CurLen' = CurLen]_vars

(***************************************************************************)
(* C4: a Get, GetMut or Set whose coordinate has a component outside the   *)
(* current extents panics and leaves the buffer unchanged.                 *)
(***************************************************************************)
C4_OutOfRangePanics ==
    [][(last'.op \in {"get", "get_mut", "set"} /\ ~InExtents(last'.c))
          => /\ last'.status = "panic"
             /\ arr2' = arr2
             /\ arr3' = arr3]_vars

(***************************************************************************)
(* C5: after a successful construction and any calls, every extent is > 0, *)
(* a Resize given a zero extent panics, Len() is never 0 and IsEmpty()     *)
(* agrees with Len().                                                      *)
(***************************************************************************)
C5_PositiveExtents ==
    /\ dim = "2d" => (arr2.width > 0 /\ arr2.height > 0)
    /\ dim = "3d" => (arr3.width > 0 /\ arr3.height > 0 /\ arr3.depth > 0)
    /\ (last.op = "resize" /\ \E k \in 1..Len(last.c) : last.c[k] = 0)
          => last.status = "panic"
    /\ CurLen # 0
    /\ IsEmpty = (CurLen = 0)

(***************************************************************************)
(* C6: mutable iteration over a container of length N yields exactly N     *)
(* items, the k-th being the position of raw offset k with a reference to  *)
(* the slot at raw offset k.                                               *)
(***************************************************************************)
C6_MutIterCoverage ==
    it.kind = "iter_mut"
        => /\ \A k \in 1..Len(out) : out[k] = <<PositionOf(k - 1), k - 1>>
           /\ (last.op = "next_mut" /\ last.status = "none") => Len(out) = CurLen

(***************************************************************************)
(* C7: immutable iteration over a container of length N yields exactly N   *)
(* pairs in increasing raw-offset order, the k-th being the position of    *)
(* offset k and the value stored there; after the N-th pair next() reports *)
(* the end; iter() starts again at offset 0.                               *)
(***************************************************************************)
C7_IterCoverage ==
    it.kind = "iter"
        => /\ it.cursor = Len(out)
           /\ Len(out) <= CurLen
           /\ \A k \in 1..Len(out) : out[k] = <<PositionOf(k - 1), Buf[k]>>
           /\ (last.op = "next" /\ last.status = "some") => last.ret = out[Len(out)]
           /\ (last.op = "next" /\ last.status = "none") => Len(out) = CurLen
           /\ (last.op = "next" /\ Len(out) < CurLen) => last.status = "some"
           /\ last.op = "iter" => (it.cursor = 0 /\ out = <<>>)

C7_Witness ==
    /\ dim = "3d" /\ it.kind = "iter"
    /\ last.op = "next" /\ last.status = "none"
    /\ arr3.width = 2 /\ arr3.height = 1 /\ arr3.depth = 2
    /\ Len(out) = 4
    /\ out[4] = <<<<1, 0, 1>>, TRUE>>

(***************************************************************************)
(* C8: in every reachable state the length of the buffer equals the        *)
(* product of the current extents, and Len() returns that number.          *)
(***************************************************************************)
C8_BufferLength ==
    /\ Len(Buf) = ExtentsProduct
    /\ CurLen = Len(Buf)

C8_Witness ==
    /\ dim = "2d" /\ last.op = "resize" /\ last.c = <<1, 2>>
    /\ writes = 1
    /\ Buf = <<FALSE, TRUE>>

(***************************************************************************)
(* C9: after Resize every slot at a raw offset below min(old_len, new_len) *)
(* holds the value it held before, every slot at a raw offset in           *)
(* [old_len, new_len) holds the default, and new_len is the product of     *)
(* the new extents.                                                        *)
(***************************************************************************)
C9_ResizeKeepsRawOffsets ==
    [][last'.op = "resize"
          => /\ Len(Buf') = ExtentsProduct'
             /\ \A k \in 1..Len(Buf') :
                   Buf'[k] = IF k <= Len(Buf) THEN Buf[k] ELSE Default]_vars

C9_Witness ==
    /\ dim = "3d" /\ last.op = "resize" /\ last.c = <<2, 2, 2>>
    /\ writes = 1
    /\ Buf = <<FALSE, TRUE, FALSE, FALSE, FALSE, FALSE, FALSE, FALSE>>

(***************************************************************************)
(* Reading the whole container now: by raw offset, and by a complete       *)
(* `for (pos, value) in &a` loop, which calls next() until it gives None.  *)
(***************************************************************************)
IndexNow(i) == IF dim = "2d" THEN Array2d_index(arr2, i) ELSE Array3d_index(arr3, i)

RECURSIVE ForEach2d(_, _, _)
ForEach2d(i, items, acc) ==
    LET r == Array2dIter_next(i, items)
    IN  IF r.status = "none" THEN acc
        ELSE ForEach2d(r.it, items, Append(acc, r.item))

RECURSIVE ForEach3d(_, _, _)
ForEach3d(i, items, acc) ==
    LET r == Array3dIter_next(i, items)
    IN  IF r.status = "none" THEN acc
        ELSE ForEach3d(r.it, items, Append(acc, r.item))

ForEachNow ==
    IF dim = "2d" THEN ForEach2d(Array2d_iter(arr2), arr2.array, <<>>)
    ELSE ForEach3d(Array3d_iter(arr3), arr3.array, <<>>)

(* The product of the extents passed to the last new or resize. *)
RequestedLen ==
    IF Len(last.c) = 2 THEN last.c[1] * last.c[2]
    ELSE last.c[1] * last.c[2] * last.c[3]

(***************************************************************************)
(* C11: Construct panics when any requested extent is 0; otherwise it      *)
(* returns a container whose Len() is the product of the requested extents *)
(* and in which every slot, read by raw offset or by iteration, holds the  *)
(* default value.                                                          *)
(***************************************************************************)
C11_Construction ==
    last.op = "new"
        => IF \E k \in 1..Len(last.c) : last.c[k] = 0
           THEN last.status = "panic"
           ELSE /\ last.status = "ok"
                /\ CurLen = RequestedLen
                /\ \A i \in 0..(RequestedLen - 1) :
                      /\ IndexNow(i).status = "ok"
                      /\ IndexNow(i).ret = <<Default>>
                /\ Len(ForEachNow) = RequestedLen
                /\ \A k \in 1..Len(ForEachNow) : ForEachNow[k][2] = Default

C11_Witness ==
    /\ dim = "3d" /\ last.op = "new" /\ last.status = "ok"
    /\ last.c = <<2, 1, 2>>
    /\ writes = 1
    /\ Buf = <<FALSE, FALSE, FALSE, FALSE>>

(* What a[i] answers once the step has been taken. *)
IndexAfter(i) == IF dim = "2d" THEN Array2d_index(arr2', i) ELSE Array3d_index(arr3', i)

(***************************************************************************)
(* C12: for every raw index i < Len(), a[i] = v followed by a[i] gives v   *)
(* and leaves every other raw offset and the extents unchanged, and a[i]   *)
(* reads the slot at offset i; for every i >= Len() the read and the write *)
(* panic and leave the container unchanged.                                *)
(***************************************************************************)
C12_FlatIndex ==
    [][/\ last'.op = "index_mut"
          => IF last'.c[1] < CurLen
             THEN /\ last'.status = "ok"
                  /\ Buf' = [Buf EXCEPT ![last'.c[1] + 1] = last'.v[1]]
                  /\ IndexAfter(last'.c[1]).status = "ok"
                  /\ IndexAfter(last'.c[1]).ret = last'.v
                  /\ CurLen' = CurLen
                  /\ [arr2 EXCEPT !.array = <<>>] = [arr2' EXCEPT !.array = <<>>]
                  /\ [arr3 EXCEPT !.array = <<>>] = [arr3' EXCEPT !.array = <<>>]
             ELSE /\ last'.status = "panic"
                  /\ arr2' = arr2
                  /\ arr3' = arr3
       /\ last'.op = "index"
          => /\ arr2' = arr2
             /\ arr3' = arr3
             /\ IF last'.c[1] < CurLen
                THEN /\ last'.status = "ok"
                     /\ last'.ret = <<Buf[last'.c[1] + 1]>>
                ELSE last'.status = "panic"]_vars

C12_Witness ==
    /\ dim = "3d" /\ last.op = "index_mut" /\ last.status = "ok"
    /\ last.c = <<5>> /\ last.v = <<TRUE>>
    /\ arr3.width = 2 /\ arr3.height = 2 /\ arr3.depth = 2
    /\ Buf = <<FALSE, FALSE, FALSE, FALSE, FALSE, TRUE, FALSE, FALSE>>

(***************************************************************************)
(* C13: every pair (c, v) that immutable iteration yields at raw offset k  *)
(* has c inside the container's extents, and Get(c) succeeds and returns   *)
(* the value of slot k.                                                    *)
(***************************************************************************)
C13_IterAgreesWithGet ==
    it.kind = "iter"
        => \A k \in 1..Len(out) :
              /\ InExtents(out[k][1])
              /\ GetNow(out[k][1]) = {[status |-> "ok", ret |-> <<Buf[k]>>]}

====
